---- MODULE Spec2Model ----
(***************************************************************************)
(* MesaLink options.h (curl-sys/include/mesalink/mesalink/options.h) as    *)
(* the C preprocessor sees it.  The header is a generated artifact: one    *)
(* "#undef X / #define X" block per feature, the #define kept commented    *)
(* out for a feature that is switched off.  The state machine below is a   *)
(* translation unit that includes the artifact (possibly several times),   *)
(* one step per line, starting from macros predefined on the command line. *)
(* The artifact in the tree is the shipped header; a build may regenerate  *)
(* it from a selection of overrides.                                       *)
(***************************************************************************)
EXTENDS Integers, Sequences, FiniteSets, TLC

\* ---------------------------------------------------------------- bounds
MaxOverrides == 2   \* entries in one override mapping
MaxPredefined == 1  \* macros predefined before the first inclusion
MaxIncludes == 2    \* inclusions of the artifact by one translation unit

\* ------------------------------------------------------- lines of a header
L(kind, arg) == [kind |-> kind, arg |-> arg]

Blank == L("blank", "")

\* options.h, line by line.  "disabled" is a commented-out define
\* ("// #define HAVE_SERVER"); "open"/"close" are the extern "C" braces.
Header ==
  << L("comment", "MesaLink options.h"),
     L("comment", "generated from configure options"),
     L("comment", ""),
     L("comment", "This file is part of MesaLink."),
     L("comment", ""),
     L("comment", ""),
     Blank,
     L("ifndef", "MESALINK_OPTIONS_H"),
     L("define", "MESALINK_OPTIONS_H"),
     Blank,
     Blank,
     L("ifdef", "__cplusplus"),
     L("open", "extern C"),
     L("endif", ""),
     Blank,
     L("undef", "HAVE_CLIENT"),
     L("define", "HAVE_CLIENT"),
     Blank,
     L("undef", "HAVE_SERVER"),
     L("disabled", "HAVE_SERVER"),
     Blank,
     L("undef", "HAVE_ERROR_STRINGS"),
     L("define", "HAVE_ERROR_STRINGS"),
     Blank,
     L("undef", "HAVE_AESGCM"),
     L("define", "HAVE_AESGCM"),
     Blank,
     L("undef", "HAVE_CHACHAPOLY"),
     L("define", "HAVE_CHACHAPOLY"),
     Blank,
     L("undef", "HAVE_TLS13"),
     L("define", "HAVE_TLS13"),
     Blank,
     L("undef", "HAVE_X25519"),
     L("define", "HAVE_X25519"),
     Blank,
     L("undef", "HAVE_ECDH"),
     L("define", "HAVE_ECDH"),
     Blank,
     L("undef", "HAVE_ECDSA"),
     L("define", "HAVE_ECDSA"),
     Blank,
     L("undef", "NO_SGX"),
     L("define", "NO_SGX"),
     Blank,
     Blank,
     L("ifdef", "__cplusplus"),
     L("close", "}"),
     L("endif", ""),
     Blank,
     Blank,
     L("endif", "MESALINK_OPTIONS_H") >>

GuardMacro == "MESALINK_OPTIONS_H"

CxxMacro == "__cplusplus"

\* The feature macros the header sets, in the order of its blocks.
OptionMacros ==
  << "HAVE_CLIENT", "HAVE_SERVER", "HAVE_ERROR_STRINGS", "HAVE_AESGCM",
     "HAVE_CHACHAPOLY", "HAVE_TLS13", "HAVE_X25519", "HAVE_ECDH",
     "HAVE_ECDSA", "NO_SGX" >>

\* options.h with line 20 uncommented: the server role switched on.
ShippedServerOn == [ Header EXCEPT ![20] = L("define", "HAVE_SERVER") ]

\* options.h with the X25519 and ECDH blocks in each other's place.
ShippedSwapped ==
  [ Header EXCEPT ![34] = L("undef", "HAVE_ECDH"),
                  ![35] = L("define", "HAVE_ECDH"),
                  ![37] = L("undef", "HAVE_X25519"),
                  ![38] = L("define", "HAVE_X25519") ]

\* The artifact in the tree when a build starts.
Shipped == Header

\* ------------------------------------------- the capability configuration
\* Capability identifiers in the fixed table order.
TableOrder ==
  << "CLIENT_ROLE", "SERVER_ROLE", "ERROR_STRINGS", "CIPHER_AESGCM",
     "CIPHER_CHACHAPOLY", "PROTOCOL_TLS13", "KEX_X25519", "KEX_ECDH",
     "SIG_ECDSA", "EXCLUDE_SGX" >>

Recognized == { TableOrder[i] : i \in 1..Len(TableOrder) }

IndexOf(k) == CHOOSE i \in 1..Len(TableOrder) : TableOrder[i] = k

\* The macro that carries a capability in the artifact.
MacroOf(k) == OptionMacros[IndexOf(k)]

MacroSet == { OptionMacros[i] : i \in 1..Len(OptionMacros) }

defaults == [ k \in Recognized |-> k # "SERVER_ROLE" ]

UnknownKey == "NOT_A_REAL_FLAG"

NoSet == [ k \in {} |-> FALSE ]

Ok(s) == [ err |-> "None", set |-> s ]

Err(kind) == [ err |-> kind, set |-> NoSet ]

\* First violated invariant, roles before key exchange.
Validate(s) ==
  IF ~s["CLIENT_ROLE"] /\ ~s["SERVER_ROLE"] THEN "ConflictingSelection"
  ELSE IF s["PROTOCOL_TLS13"] /\ ~s["KEX_X25519"] /\ ~s["KEX_ECDH"]
       THEN "ConflictingSelection"
  ELSE "None"

Construct(d, m) ==
  IF ~(DOMAIN m \subseteq Recognized) THEN Err("UnknownCapability")
  ELSE LET s == [ k \in Recognized |-> IF k \in DOMAIN m THEN m[k] ELSE d[k] ]
       IN IF Validate(s) = "None" THEN Ok(s) ELSE Err(Validate(s))

IsEnabled(s, k) ==
  IF k \in Recognized THEN [ err |-> "None", value |-> s[k] ]
  ELSE [ err |-> "UnknownCapability", value |-> FALSE ]

\* The skeleton around the blocks: banner, include guard, linkage wrapper.
Prologue ==
  << L("comment", "MesaLink options.h"),
     L("comment", "generated from configure options"),
     L("comment", ""),
     L("comment", "This file is part of MesaLink."),
     L("comment", ""),
     L("comment", ""),
     Blank,
     L("ifndef", GuardMacro),
     L("define", GuardMacro),
     Blank,
     Blank,
     L("ifdef", CxxMacro),
     L("open", "extern C"),
     L("endif", ""),
     Blank >>

Epilogue ==
  << Blank,
     L("ifdef", CxxMacro),
     L("close", "}"),
     L("endif", ""),
     Blank,
     Blank,
     L("endif", GuardMacro) >>

\* One block: the undef, then the define, commented out when disabled.
Block(k, enabled) ==
  << L("undef", MacroOf(k)),
     L(IF enabled THEN "define" ELSE "disabled", MacroOf(k)),
     Blank >>

RECURSIVE BlocksFrom(_, _)
BlocksFrom(s, i) ==
  IF i > Len(TableOrder) THEN << >>
  ELSE Block(TableOrder[i], s[TableOrder[i]]) \o BlocksFrom(s, i + 1)

Serialize(s) == Prologue \o BlocksFrom(s, 1) \o Epilogue

BlockLen == 3

\* The lines between the skeleton's prologue and epilogue.
Middle(lines) ==
  SubSeq(lines, Len(Prologue) + 1, Len(lines) - Len(Epilogue))

WellFramed(lines) ==
  /\ Len(lines) >= Len(Prologue) + Len(Epilogue)
  /\ SubSeq(lines, 1, Len(Prologue)) = Prologue
  /\ SubSeq(lines, Len(lines) - Len(Epilogue) + 1, Len(lines)) = Epilogue
  /\ Len(Middle(lines)) % BlockLen = 0

NBlocks(lines) == Len(Middle(lines)) \div BlockLen

BlockAt(lines, i) ==
  SubSeq(Middle(lines), BlockLen * (i - 1) + 1, BlockLen * i)

IsBlock(b) ==
  /\ b[1].kind = "undef"
  /\ b[2].kind \in {"define", "disabled"}
  /\ b[2].arg = b[1].arg
  /\ b[3] = Blank

Deserialize(lines) ==
  IF ~WellFramed(lines) THEN Err("MalformedArtifact")
  ELSE IF \E i \in 1..NBlocks(lines) : ~IsBlock(BlockAt(lines, i))
       THEN Err("MalformedArtifact")
  ELSE IF \E i \in 1..NBlocks(lines) : BlockAt(lines, i)[1].arg \notin MacroSet
       THEN Err("UnknownCapability")
  ELSE IF \/ NBlocks(lines) # Len(TableOrder)
          \/ \E i \in 1..NBlocks(lines) :
               BlockAt(lines, i)[1].arg # OptionMacros[i]
       THEN Err("MalformedArtifact")
  ELSE LET s == [ k \in Recognized |->
                    BlockAt(lines, IndexOf(k))[2].kind = "define" ]
       IN IF Validate(s) = "None" THEN Ok(s) ELSE Err(Validate(s))

\* ------------------------------------------------------------------ inputs
OverrideKeys == Recognized \cup {UnknownKey}

OverrideMaps ==
  UNION { [K -> BOOLEAN] :
          K \in { S \in SUBSET OverrideKeys : Cardinality(S) <= MaxOverrides } }

\* Macros a command line may predefine.  The include guard is reserved to
\* the header itself.
Predefinable == MacroSet \cup {CxxMacro}

PredefinedSets == { S \in SUBSET Predefinable : Cardinality(S) <= MaxPredefined }

\* ------------------------------------------------------------------- state
VARIABLES
  artifact,   \* the lines of the header the translation unit includes
  overrides,  \* the selection the last regeneration was asked for
  result,     \* outcome of the last regeneration
  built,      \* TRUE once this build has regenerated the artifact
  phase,      \* "idle" | "failed" | "scan" | "done"
  pc,         \* line of the artifact the preprocessor is at
  cond,       \* open conditional groups, TRUE for a group that is taken
  defined,    \* macros currently defined
  braces,     \* extern "C" blocks currently open
  included    \* completed inclusions

vars ==
  << artifact, overrides, result, built, phase, pc, cond, defined,
     braces, included >>

NoOverrides == [ k \in {} |-> FALSE ]

NoResult == Err("NotBuilt")

\* Lines are processed only when every enclosing group is taken.
Active(c) == \A i \in 1..Len(c) : c[i]

\* An undef that is lost: the macro keeps its earlier definition.
DoUndefLost(d, name) == d

DoUndef(d, name) == d \ {name}

DoDefine(d, name) == d \cup {name}

AtLine(kinds) ==
  /\ phase = "scan"
  /\ pc <= Len(artifact)
  /\ artifact[pc].kind \in kinds

Advance == pc' = pc + 1

Config == << artifact, overrides, result, built >>

\* The shipped header is in the tree; nothing has been included yet.
Init ==
  /\ artifact = Shipped
  /\ overrides = NoOverrides
  /\ result = NoResult
  /\ built = FALSE
  /\ phase = "idle"
  /\ pc = 1
  /\ cond = << >>
  /\ defined \in PredefinedSets
  /\ braces = 0
  /\ included = 0

\* The build regenerates the artifact from a selection, once and before
\* anything is compiled, or fails and leaves nothing to compile against.
Generate ==
  /\ phase = "idle"
  /\ included = 0
  /\ ~built
  /\ \E m \in OverrideMaps :
       LET r == Construct(defaults, m)
       IN /\ overrides' = m
          /\ result' = r
          /\ IF r.err = "None"
             THEN /\ artifact' = Serialize(r.set)
                  /\ phase' = "idle"
             ELSE /\ artifact' = artifact
                  /\ phase' = "failed"
  /\ built' = TRUE
  /\ UNCHANGED << pc, cond, defined, braces, included >>

\* #include of the artifact.
Include ==
  /\ phase \in {"idle", "done"}
  /\ included < MaxIncludes
  /\ phase' = "scan"
  /\ pc' = 1
  /\ UNCHANGED << Config, cond, defined, braces, included >>

Ifndef ==
  /\ AtLine({"ifndef"})
  /\ cond' = Append(cond, Active(cond) /\ artifact[pc].arg \notin defined)
  /\ Advance
  /\ UNCHANGED << Config, phase, defined, braces, included >>

Ifdef ==
  /\ AtLine({"ifdef"})
  /\ cond' = Append(cond, Active(cond) /\ artifact[pc].arg \in defined)
  /\ Advance
  /\ UNCHANGED << Config, phase, defined, braces, included >>

Endif ==
  /\ AtLine({"endif"})
  /\ Len(cond) > 0
  /\ cond' = SubSeq(cond, 1, Len(cond) - 1)
  /\ Advance
  /\ UNCHANGED << Config, phase, defined, braces, included >>

Undef ==
  /\ AtLine({"undef"})
  /\ defined' = IF Active(cond) THEN DoUndef(defined, artifact[pc].arg)
                ELSE defined
  /\ Advance
  /\ UNCHANGED << Config, phase, cond, braces, included >>

Define ==
  /\ AtLine({"define"})
  /\ defined' = IF Active(cond) THEN DoDefine(defined, artifact[pc].arg)
                ELSE defined
  /\ Advance
  /\ UNCHANGED << Config, phase, cond, braces, included >>

\* extern "C" {
Open ==
  /\ AtLine({"open"})
  /\ braces' = IF Active(cond) THEN braces + 1 ELSE braces
  /\ Advance
  /\ UNCHANGED << Config, phase, cond, defined, included >>

\* }
Close ==
  /\ AtLine({"close"})
  /\ braces' = IF Active(cond) THEN braces - 1 ELSE braces
  /\ Advance
  /\ UNCHANGED << Config, phase, cond, defined, included >>

\* Comments, blank lines and commented-out defines change nothing.
SkipLine ==
  /\ AtLine({"comment", "blank", "disabled"})
  /\ Advance
  /\ UNCHANGED << Config, phase, cond, defined, braces, included >>

EndOfFile ==
  /\ phase = "scan"
  /\ pc > Len(artifact)
  /\ phase' = "done"
  /\ included' = included + 1
  /\ UNCHANGED << Config, pc, cond, defined, braces >>

Next ==
  \/ Generate
  \/ Include
  \/ Ifndef
  \/ Ifdef
  \/ Endif
  \/ Undef
  \/ Define
  \/ Open
  \/ Close
  \/ SkipLine
  \/ EndOfFile

Spec == Init /\ [][Next]_vars

TypeOK ==
  /\ phase \in {"idle", "failed", "scan", "done"}
  /\ pc \in 1..(Len(artifact) + 1)
  /\ built \in BOOLEAN
  /\ included \in 0..MaxIncludes
  /\ defined \subseteq (Predefinable \cup {GuardMacro})
  /\ braces \in 0..1
  /\ Len(cond) <= 2

\* ------------------------------------------------------------------ claims
\* What a consumer sees after inclusion: the capability's macro is defined.
Visible(k) == MacroOf(k) \in defined

IsBlockLine(l) ==
  l.kind \in {"undef", "define", "disabled"} /\ l.arg # GuardMacro

\* The undef/define lines of an artifact, skeleton and blanks left out.
BlockLines(a) == SelectSeq(a, IsBlockLine)

\* C1: for every override mapping for which Construct succeeds, reading the
\* serialized artifact back gives a set equal to the constructed one in each
\* of the ten capabilities, disabled ones (commented-out define after the
\* undef) included: Deserialize returns it, and the macros visible after
\* the artifact has been included are exactly its enabled capabilities.
C1_RoundTrip ==
  (built /\ result.err = "None") =>
    /\ phase = "idle" => Deserialize(artifact) = result
    /\ phase = "done" => \A k \in Recognized : Visible(k) = result.set[k]

\* C1 witness: an included regenerated artifact with a capability disabled
\* that the defaults enable.
C1_Witness ==
  /\ built
  /\ result.err = "None"
  /\ phase = "done"
  /\ \E k \in Recognized \ {"SERVER_ROLE"} : ~result.set[k] /\ ~Visible(k)

\* C2: Construct(defaults, {}) succeeds and IsEnabled of the result equals
\* defaults[k] for every recognized k: SERVER_ROLE disabled, the other nine
\* enabled, which is exactly what the shipped options.h leaves defined.
C2_DefaultsAreShipped ==
  LET r == Construct(defaults, NoOverrides)
  IN /\ r.err = "None"
     /\ \A k \in Recognized :
          IsEnabled(r.set, k) = [ err |-> "None", value |-> defaults[k] ]
     /\ (~built /\ phase = "done") =>
          /\ \A k \in Recognized : IsEnabled(r.set, k).value = Visible(k)
          /\ defined \cap MacroSet = MacroSet \ {"HAVE_SERVER"}
     /\ (built /\ overrides = NoOverrides) => result = Ok(defaults)

\* C2 witness: the shipped header has been included once.
C2_Witness ==
  /\ ~built
  /\ phase = "done"
  /\ included = 1
  /\ "HAVE_CLIENT" \in defined
  /\ "HAVE_SERVER" \notin defined

\* C6: the artifact is canonical and determined by the resolved values only:
\* exactly one undef/define block per recognized identifier, in table order,
\* the define present iff the capability is enabled and commented out
\* otherwise; a set with the shipped values, however constructed, serializes
\* to the shipped options.h line for line.
C6_CanonicalArtifact ==
  phase = "idle" =>
    LET d == BlockLines(artifact)
        s == IF built THEN result.set ELSE Construct(defaults, NoOverrides).set
    IN /\ Len(d) = 2 * Len(TableOrder)
       /\ \A i \in 1..Len(TableOrder) :
            /\ d[2 * i - 1] = L("undef", OptionMacros[i])
            /\ d[2 * i] = L(IF s[TableOrder[i]] THEN "define" ELSE "disabled",
                            OptionMacros[i])
       /\ (built /\ s = defaults) => artifact = Shipped

\* C6 witness: a selection that spells out values the defaults already have
\* has produced the shipped header again.
C6_Witness ==
  /\ built
  /\ phase = "idle"
  /\ overrides # NoOverrides
  /\ result = Ok(defaults)
  /\ artifact = Header

====
